---- MODULE Spec2Model ----
(***************************************************************************)
(* Model of dags/ml_retrain_pipeline.py: the seven tasks of the DAG        *)
(* ml_retrain_pipeline, their python callables, the XCom store they share, *)
(* and the scheduling the DAG declares (dependencies, trigger rules,       *)
(* branching, retries=1).                                                  *)
(*                                                                         *)
(* Numbers: a metric rounded to 4 digits is an integer count of 1e-4       *)
(* units (8000 is 0.8).  A raw random.uniform sample is an integer count   *)
(* of 1/(10^4 * RawSub) units.                                             *)
(***************************************************************************)
EXTENDS Integers, Sequences, FiniteSets, TLC

VARIABLES
    state,             \* task_id -> task instance state
    try_number,        \* task_id -> number of attempts started
    faults,            \* task_id -> attempts that died outside the callable
    xcom,              \* [metrics, deploy_info], each <<>> (absent) or <<v>>
    TELEGRAM_TOKEN,    \* os.getenv("TELEGRAM_TOKEN")
    TELEGRAM_CHAT_ID,  \* os.getenv("TELEGRAM_CHAT_ID")
    branch,            \* what check_metrics last returned, "none" before
    sent,              \* payloads handed to requests.post, in order
    log,               \* which log path send_telegram_notification last took
    raw,               \* <<>> or <<samples>> a direct call of evaluate_model drew
    last,              \* [task, raised]: the callable that ran last
    pushed             \* the xcom_push calls made, in order: <<task_id, key>>

vars == <<state, try_number, faults, xcom, TELEGRAM_TOKEN, TELEGRAM_CHAT_ID,
          branch, sent, log, raw, last, pushed>>

----------------------------------------------------------------------------
(* Bounds of the model *)

RawSub == 2       \* raw sample steps per 1e-4 unit
MaxJitter == 1    \* raw samples taken within this many steps of a range end
MaxDelta == 2     \* accuracies tried within this many 1e-4 units of the threshold

----------------------------------------------------------------------------
(* Program constants *)

ACCURACY_THRESHOLD == 8000
MODEL_VERSION == "v1.0.0"
(* two retries instead of one *)
retries_two == 1 + 1

retries == 1

AccuracyLo == 7500
AccuracyHi == 9500
PrecisionLo == 7000
PrecisionHi == 9200
RecallLo == 7200
RecallHi == 9400

None == <<>>
Some(v) == <<v>>

(* What os.getenv can yield for a credential: None, "" or a value.         *)
Unset == "<unset>"
Credentials == {Unset, "", "secret"}

(* The configurations a pipeline run is modelled under. *)
RunCredentials == {Unset, "secret"}

(* What requests.post can do: answer with a status code, or raise          *)
(* (timeout after 10 s, connection error, ...).                            *)
Responses ==
    {[raised |-> FALSE, status_code |-> c] : c \in {200, 400, 500}} \cup
    {[raised |-> TRUE, status_code |-> 0]}

Tasks == {"train_model", "evaluate_model", "check_metrics", "deploy_model",
          "skip_deploy", "notify_success", "join"}

(* upstream with notify_success also placed after skip_deploy *)
upstream_notify_after_both(t) ==
    CASE t = "train_model"    -> {}
      [] t = "evaluate_model" -> {"train_model"}
      [] t = "check_metrics"  -> {"evaluate_model"}
      [] t = "deploy_model"   -> {"check_metrics"}
      [] t = "skip_deploy"    -> {"check_metrics"}
      [] t = "notify_success" -> {"deploy_model", "skip_deploy"}
      [] t = "join"           -> {"skip_deploy", "notify_success"}

upstream(t) ==
    CASE t = "train_model"    -> {}
      [] t = "evaluate_model" -> {"train_model"}
      [] t = "check_metrics"  -> {"evaluate_model"}
      [] t = "deploy_model"   -> {"check_metrics"}
      [] t = "skip_deploy"    -> {"check_metrics"}
      [] t = "notify_success" -> {"deploy_model"}
      [] t = "join"           -> {"skip_deploy", "notify_success"}

downstream(t) == {d \in Tasks : t \in upstream(d)}

(* every task left on the default trigger rule *)
trigger_rule_default(t) == "all_success"

trigger_rule(t) ==
    IF t \in {"notify_success", "join"}
    THEN "none_failed_min_one_success"
    ELSE "all_success"

----------------------------------------------------------------------------
(* round(x, 4) of the rational num/den (in 1e-4 units): nearest integer,   *)
(* ties to even, as Python's round.                                        *)

round(num, den) ==
    LET q == num \div den
        r == num % den
    IN  IF 2 * r < den THEN q
        ELSE IF 2 * r > den THEN q + 1
        ELSE IF q % 2 = 0 THEN q ELSE q + 1

(* random.uniform(lo, hi): the raw values the model draws, near both ends  *)
(* of the range.                                                           *)
uniform(lo, hi) ==
    {lo * RawSub + j : j \in 0..MaxJitter} \cup
    {hi * RawSub - j : j \in 0..MaxJitter}

(* The accuracy draws: both ends of the range, the threshold, the raw     *)
(* value just below it (which rounds up to it) and the rounded value       *)
(* below it.                                                               *)
uniform_accuracy ==
    {AccuracyLo * RawSub, AccuracyHi * RawSub,
     (ACCURACY_THRESHOLD - 1) * RawSub,
     ACCURACY_THRESHOLD * RawSub - 1,
     ACCURACY_THRESHOLD * RawSub}

(* The draws of one evaluate_model call: every accuracy draw with one     *)
(* precision and recall, and every precision and recall draw with one      *)
(* accuracy.                                                               *)
Samples ==
    [accuracy : uniform_accuracy,
     precision : {PrecisionLo * RawSub},
     recall : {RecallLo * RawSub}]
    \cup
    [accuracy : {AccuracyHi * RawSub},
     precision : uniform(PrecisionLo, PrecisionHi),
     recall : uniform(RecallLo, RecallHi)]

----------------------------------------------------------------------------
(* The python callables.  Each takes the XCom store (and its inputs) and   *)
(* yields [raised, xcom, ret]: whether it raised, the store it leaves and  *)
(* what it returned.                                                       *)

train_model(x) ==
    [raised |-> FALSE, xcom |-> x, ret |-> "trained"]

(* evaluate_model rounding precision and recall before computing F1 *)
evaluate_model_round_first(x, s) ==
    LET precision == round(s.precision, RawSub)
        recall == round(s.recall, RawSub)
        metrics == [accuracy  |-> round(s.accuracy, RawSub),
                    precision |-> precision,
                    recall    |-> recall,
                    f1_score  |-> round(2 * (precision * recall),
                                        precision + recall)]
    IN  [raised |-> FALSE,
         xcom |-> [x EXCEPT !.metrics = Some(metrics)],
         ret |-> "metrics"]

evaluate_model(x, s) ==
    LET f1_score == [num |-> 2 * (s.precision * s.recall),
                     den |-> (s.precision + s.recall) * RawSub]
        metrics == [accuracy  |-> round(s.accuracy, RawSub),
                    precision |-> round(s.precision, RawSub),
                    recall    |-> round(s.recall, RawSub),
                    f1_score  |-> round(f1_score.num, f1_score.den)]
    IN  [raised |-> FALSE,
         xcom |-> [x EXCEPT !.metrics = Some(metrics)],
         ret |-> "metrics"]

(* check_metrics taking a missing accuracy for 1.0 *)
check_metrics_default_one(x) ==
    LET metrics == x.metrics
    IN  IF metrics = None
        THEN [raised |-> TRUE, xcom |-> x, ret |-> "none"]
        ELSE LET accuracy == IF "accuracy" \in DOMAIN metrics[1]
                             THEN metrics[1].accuracy ELSE 10000
             IN  [raised |-> FALSE, xcom |-> x,
                  ret |-> IF accuracy >= ACCURACY_THRESHOLD
                          THEN "deploy_model" ELSE "skip_deploy"]

(* check_metrics comparing with > instead of >= *)
check_metrics_strict(x) ==
    LET metrics == x.metrics
    IN  IF metrics = None
        THEN [raised |-> TRUE, xcom |-> x, ret |-> "none"]
        ELSE LET accuracy == IF "accuracy" \in DOMAIN metrics[1]
                             THEN metrics[1].accuracy ELSE 0
             IN  [raised |-> FALSE, xcom |-> x,
                  ret |-> IF accuracy > ACCURACY_THRESHOLD
                          THEN "deploy_model" ELSE "skip_deploy"]

check_metrics(x) ==
    LET metrics == x.metrics
    IN  IF metrics = None
        THEN [raised |-> TRUE, xcom |-> x, ret |-> "none"]
        ELSE LET accuracy == IF "accuracy" \in DOMAIN metrics[1]
                             THEN metrics[1].accuracy ELSE 0
             IN  [raised |-> FALSE, xcom |-> x,
                  ret |-> IF accuracy >= ACCURACY_THRESHOLD
                          THEN "deploy_model" ELSE "skip_deploy"]

(* deploy_model pushing the metrics back, accuracy reset *)
deploy_model_rewrites_metrics(x, t) ==
    LET metrics == x.metrics
    IN  IF \/ metrics = None
           \/ {"accuracy", "f1_score"} \ DOMAIN metrics[1] # {}
        THEN [raised |-> TRUE, xcom |-> x, ret |-> "none"]
        ELSE [raised |-> FALSE,
              xcom |-> [metrics |-> Some([metrics[1] EXCEPT !.accuracy = 0]),
                        deploy_info |->
                           Some([version |-> MODEL_VERSION,
                                 metrics |-> metrics[1],
                                 timestamp |-> t])],
              ret |-> "deployed"]

(* deploy_model without its xcom_push *)
deploy_model_no_push(x, t) ==
    LET metrics == x.metrics
    IN  IF \/ metrics = None
           \/ {"accuracy", "f1_score"} \ DOMAIN metrics[1] # {}
        THEN [raised |-> TRUE, xcom |-> x, ret |-> "none"]
        ELSE [raised |-> FALSE, xcom |-> x, ret |-> "deployed"]

deploy_model(x, t) ==
    LET metrics == x.metrics
    IN  IF \/ metrics = None
           \/ {"accuracy", "f1_score"} \ DOMAIN metrics[1] # {}
        THEN [raised |-> TRUE, xcom |-> x, ret |-> "none"]
        ELSE [raised |-> FALSE,
              xcom |-> [x EXCEPT !.deploy_info =
                           Some([version |-> MODEL_VERSION,
                                 metrics |-> metrics[1],
                                 timestamp |-> t])],
              ret |-> "deployed"]

(* skip_deploy pushing a deploy_info as deploy_model does *)
skip_deploy_pushes(x) ==
    LET metrics == x.metrics
    IN  IF metrics = None \/ "accuracy" \notin DOMAIN metrics[1]
        THEN [raised |-> TRUE, xcom |-> x, ret |-> "none"]
        ELSE [raised |-> FALSE,
              xcom |-> [x EXCEPT !.deploy_info =
                           Some([version |-> MODEL_VERSION,
                                 metrics |-> metrics[1],
                                 timestamp |-> 0])],
              ret |-> "skipped"]

skip_deploy(x) ==
    LET metrics == x.metrics
    IN  IF metrics = None \/ "accuracy" \notin DOMAIN metrics[1]
        THEN [raised |-> TRUE, xcom |-> x, ret |-> "none"]
        ELSE [raised |-> FALSE, xcom |-> x, ret |-> "skipped"]

(* Python truthiness of a pulled XCom value (None and {} are falsy) and   *)
(* of a credential (None and "" are falsy).                                *)
not_dict(d) == d = None \/ DOMAIN d[1] = {}
not_str(c) == c \in {Unset, ""}

(* dict.get(k, 'N/A') rendered by the f-string *)
get_str(d, k) == IF k \in DOMAIN d THEN ToString(d[k]) ELSE "N/A"

(* post_message trying the POST a second time when the first did not     *)
(* answer 200                                                              *)
post_message_twice(x, token, chat_id, response) ==
    LET payload == [url_token |-> token, chat_id |-> chat_id,
                    text |-> <<>>, parse_mode |-> "Markdown"]
    IN  [raised |-> FALSE, xcom |-> x,
         log |-> IF response.raised THEN "exception"
                 ELSE IF response.status_code = 200 THEN "sent"
                 ELSE "send_error",
         posts |-> IF ~response.raised /\ response.status_code = 200
                   THEN <<payload>> ELSE <<payload, payload>>]

(* post_message without the try/except: a transport exception escapes *)
post_message_uncaught(x, token, chat_id, response) ==
    [raised |-> response.raised, xcom |-> x,
     log |-> IF response.raised THEN "none"
             ELSE IF response.status_code = 200 THEN "sent"
             ELSE "send_error",
     posts |-> <<[url_token |-> token, chat_id |-> chat_id,
                  text |-> <<>>, parse_mode |-> "Markdown"]>>]

(* Lines 124-153: format the message, one requests.post, and the          *)
(* try/except around it.                                                   *)
post_message(x, token, chat_id, response) ==
    LET deploy_info == x.deploy_info[1]
        metrics == IF "metrics" \in DOMAIN deploy_info
                   THEN deploy_info.metrics ELSE <<>>
        message == [version   |-> MODEL_VERSION,
                    accuracy  |-> get_str(metrics, "accuracy"),
                    precision |-> get_str(metrics, "precision"),
                    recall    |-> get_str(metrics, "recall"),
                    f1_score  |-> get_str(metrics, "f1_score"),
                    timestamp |-> get_str(deploy_info, "timestamp")]
        payload == [url_token |-> token, chat_id |-> chat_id,
                    text |-> message, parse_mode |-> "Markdown"]
    IN  [raised |-> FALSE, xcom |-> x,
         log |-> IF response.raised THEN "exception"
                 ELSE IF response.status_code = 200 THEN "sent"
                 ELSE "send_error",
         posts |-> <<payload>>]

(* send_telegram_notification without the deploy_info check: a missing    *)
(* deploy_info reaches deploy_info.get and raises.                         *)
send_telegram_notification_unchecked(x, token, chat_id, response) ==
    IF not_str(token) \/ not_str(chat_id)
    THEN [raised |-> FALSE, xcom |-> x, log |-> "simulated", posts |-> <<>>]
    ELSE IF x.deploy_info = None
    THEN [raised |-> TRUE, xcom |-> x, log |-> "none", posts |-> <<>>]
    ELSE post_message(x, token, chat_id, response)

(* send_telegram_notification asking for both credentials to be missing *)
send_telegram_notification_and(x, token, chat_id, response) ==
    LET deploy_info == x.deploy_info
    IN  IF not_dict(deploy_info)
        THEN [raised |-> FALSE, xcom |-> x, log |-> "no_deploy_info",
              posts |-> <<>>]
        ELSE IF not_str(token) /\ not_str(chat_id)
        THEN [raised |-> FALSE, xcom |-> x, log |-> "simulated",
              posts |-> <<>>]
        ELSE post_message(x, token, chat_id, response)

send_telegram_notification(x, token, chat_id, response) ==
    LET deploy_info == x.deploy_info
    IN  IF not_dict(deploy_info)
        THEN [raised |-> FALSE, xcom |-> x, log |-> "no_deploy_info",
              posts |-> <<>>]
        ELSE IF not_str(token) \/ not_str(chat_id)
        THEN [raised |-> FALSE, xcom |-> x, log |-> "simulated",
              posts |-> <<>>]
        ELSE post_message(x, token, chat_id, response)

----------------------------------------------------------------------------
(* The scheduler: task instance states, trigger rules, retries.            *)

Finished == {"success", "failed", "skipped", "upstream_failed"}

(* trigger_rule_dep letting a task run as soon as one upstream task has   *)
(* succeeded, without waiting for the others                               *)
trigger_rule_dep_one_success(t) ==
    LET up == upstream(t)
        failed == {u \in up : state[u] \in {"failed", "upstream_failed"}}
        skipped == {u \in up : state[u] = "skipped"}
        success == {u \in up : state[u] = "success"}
    IN  IF failed # {} THEN "upstream_failed"
        ELSE IF up # {} /\ skipped = up THEN "skipped"
        ELSE IF up = {} \/ success # {} THEN "run"
        ELSE "wait"

(* trigger_rule_dep with none_failed_min_one_success letting the task run *)
(* once all upstream tasks are done, failed or not                         *)
trigger_rule_dep_all_done(t) ==
    LET up == upstream(t)
        failed == {u \in up : state[u] \in {"failed", "upstream_failed"}}
        skipped == {u \in up : state[u] = "skipped"}
        success == {u \in up : state[u] = "success"}
        done == {u \in up : state[u] \in
                    {"success", "failed", "skipped", "upstream_failed"}}
    IN  IF trigger_rule(t) = "all_success"
        THEN IF failed # {} THEN "upstream_failed"
             ELSE IF skipped # {} THEN "skipped"
             ELSE IF success = up THEN "run"
             ELSE "wait"
        ELSE IF done = up THEN "run" ELSE "wait"

(* trigger_rule_dep with none_failed_min_one_success also refusing a      *)
(* skipped upstream task                                                   *)
trigger_rule_dep_no_skip(t) ==
    LET up == upstream(t)
        failed == {u \in up : state[u] \in {"failed", "upstream_failed"}}
        skipped == {u \in up : state[u] = "skipped"}
        success == {u \in up : state[u] = "success"}
    IN  IF failed # {} THEN "upstream_failed"
        ELSE IF skipped # {} THEN "skipped"
        ELSE IF success = up THEN "run"
        ELSE "wait"

(* What the trigger rule of t says, given the states of its upstream       *)
(* tasks: "run", "wait", or the state t is given without running.          *)
trigger_rule_dep(t) ==
    LET up == upstream(t)
        failed == {u \in up : state[u] \in {"failed", "upstream_failed"}}
        skipped == {u \in up : state[u] = "skipped"}
        success == {u \in up : state[u] = "success"}
        done == {u \in up : state[u] \in Finished}
    IN  IF trigger_rule(t) = "all_success"
        THEN IF failed # {} THEN "upstream_failed"
             ELSE IF skipped # {} THEN "skipped"
             ELSE IF success = up THEN "run"
             ELSE "wait"
        ELSE \* none_failed_min_one_success
             IF failed # {} THEN "upstream_failed"
             ELSE IF skipped = up THEN "skipped"
             ELSE IF done = up /\ success # {} THEN "run"
             ELSE "wait"

(* datetime.now(): a clock that advances with every task attempt.          *)
now == try_number["train_model"] + try_number["evaluate_model"]
       + try_number["check_metrics"] + try_number["deploy_model"]
       + try_number["skip_deploy"] + try_number["notify_success"]

(* XCom entries a task instance owns; they are cleared when an attempt     *)
(* of the task starts.                                                     *)
clear_xcom_data(x, t) ==
    [metrics |-> IF t = "evaluate_model" THEN None ELSE x.metrics,
     deploy_info |-> IF t = "deploy_model" THEN None ELSE x.deploy_info]

(* The xcom_push calls of a callable of task t that turned store x into   *)
(* store y.                                                                *)
xcom_push(t, x, y) ==
    (IF y.metrics # x.metrics THEN <<(<<t, "metrics">>)>> ELSE <<>>)
    \o (IF y.deploy_info # x.deploy_info THEN <<(<<t, "deploy_info">>)>>
        ELSE <<>>)

(* How an attempt can end apart from what its callable does: "none" (the   *)
(* callable's outcome stands), "before" (the attempt dies before the       *)
(* callable runs), "after" (it dies after the callable returned).          *)
Faults == {"none", "before", "after"}

(* One attempt of task t whose callable yields res; skips are the tasks    *)
(* the attempt marks skipped.                                              *)
run_task(t, res, fault, skips) ==
    /\ state[t] \in {"none", "up_for_retry"}
    /\ trigger_rule_dep(t) = "run"
    /\ try_number' = [try_number EXCEPT ![t] = @ + 1]
    /\ xcom' = IF fault = "before" THEN clear_xcom_data(xcom, t) ELSE res.xcom
    /\ last' = [task |-> t, raised |-> fault # "before" /\ res.raised]
    /\ faults' = [faults EXCEPT ![t] = IF fault = "none" THEN @ ELSE @ + 1]
    /\ pushed' = IF fault = "before" THEN pushed
                 ELSE pushed \o xcom_push(t, clear_xcom_data(xcom, t), res.xcom)
    /\ LET ok == fault = "none" /\ ~res.raised
           new == IF ok THEN "success"
                  ELSE IF try_number[t] + 1 <= retries THEN "up_for_retry"
                  ELSE "failed"
       IN  state' = [u \in Tasks |->
                        IF u = t THEN new
                        ELSE IF u \in skips THEN "skipped"
                        ELSE state[u]]

Train ==
    \E fault \in Faults :
        /\ run_task("train_model",
                    train_model(clear_xcom_data(xcom, "train_model")),
                    fault, {})
        /\ UNCHANGED <<TELEGRAM_TOKEN, TELEGRAM_CHAT_ID, branch, sent, log,
                       raw>>

Evaluate ==
    \E fault \in Faults, s \in Samples :
        /\ run_task("evaluate_model",
                    evaluate_model(clear_xcom_data(xcom, "evaluate_model"), s),
                    fault, {})
        /\ UNCHANGED <<TELEGRAM_TOKEN, TELEGRAM_CHAT_ID, branch, sent, log,
                       raw>>

(* BranchPythonOperator: after the callable returned, every direct         *)
(* downstream task other than the returned one is marked skipped.          *)
skip_all_except_nothing(branch_task_id) == {}

(* skipping the returned task instead of the others *)
skip_all_except_chosen(branch_task_id) == {branch_task_id}

skip_all_except(branch_task_id) ==
    downstream("check_metrics") \ {branch_task_id}

Check ==
    \E fault \in Faults :
        LET res == check_metrics(clear_xcom_data(xcom, "check_metrics"))
            ran == fault # "before" /\ ~res.raised
        IN  /\ run_task("check_metrics", res, fault,
                        IF ran THEN skip_all_except(res.ret) ELSE {})
            /\ branch' = IF ran THEN res.ret ELSE branch
            /\ UNCHANGED <<TELEGRAM_TOKEN, TELEGRAM_CHAT_ID, sent, log, raw>>

Deploy ==
    \E fault \in Faults :
        /\ run_task("deploy_model",
                    deploy_model(clear_xcom_data(xcom, "deploy_model"), now),
                    fault, {})
        /\ UNCHANGED <<TELEGRAM_TOKEN, TELEGRAM_CHAT_ID, branch, sent, log,
                       raw>>

Skip ==
    \E fault \in Faults :
        /\ run_task("skip_deploy",
                    skip_deploy(clear_xcom_data(xcom, "skip_deploy")),
                    fault, {})
        /\ UNCHANGED <<TELEGRAM_TOKEN, TELEGRAM_CHAT_ID, branch, sent, log,
                       raw>>

Notify ==
    \E fault \in Faults, response \in Responses :
        LET res == send_telegram_notification(
                       clear_xcom_data(xcom, "notify_success"),
                       TELEGRAM_TOKEN, TELEGRAM_CHAT_ID, response)
        IN  /\ run_task("notify_success", res, fault, {})
            /\ sent' = IF fault = "before" THEN sent ELSE sent \o res.posts
            /\ log' = IF fault = "before" THEN log ELSE res.log
            /\ UNCHANGED <<TELEGRAM_TOKEN, TELEGRAM_CHAT_ID, branch, raw>>

(* EmptyOperator: nothing to execute, the task is marked success as soon   *)
(* as its trigger rule lets it run.                                        *)
Join ==
    /\ state["join"] = "none"
    /\ trigger_rule_dep("join") = "run"
    /\ state' = [state EXCEPT !["join"] = "success"]
    /\ UNCHANGED <<try_number, faults, xcom, TELEGRAM_TOKEN,
                   TELEGRAM_CHAT_ID, branch, sent, log, raw, last,
                   pushed>>

(* A task whose trigger rule can no longer be met is given its final       *)
(* state without running.                                                  *)
Propagate ==
    \E t \in Tasks :
        /\ state[t] = "none"
        /\ trigger_rule_dep(t) \in {"skipped", "upstream_failed"}
        /\ state' = [state EXCEPT ![t] = trigger_rule_dep(t)]
        /\ UNCHANGED <<try_number, faults, xcom, TELEGRAM_TOKEN,
                       TELEGRAM_CHAT_ID, branch, sent, log, raw, last,
                   pushed>>

Init ==
    /\ state = [t \in Tasks |-> "none"]
    /\ try_number = [t \in Tasks |-> 0]
    /\ faults = [t \in Tasks |-> 0]
    /\ xcom = [metrics |-> None, deploy_info |-> None]
    /\ TELEGRAM_TOKEN \in RunCredentials
    /\ TELEGRAM_CHAT_ID \in RunCredentials
    /\ branch = "none"
    /\ sent = <<>>
    /\ log = "none"
    /\ raw = None
    /\ last = [task |-> "none", raised |-> FALSE]
    /\ pushed = <<>>

Next ==
    \/ Train
    \/ Evaluate
    \/ Check
    \/ Deploy
    \/ Skip
    \/ Notify
    \/ Join
    \/ Propagate

Spec == Init /\ [][Next]_vars

(* The scheduler does not leave a schedulable task instance unscheduled.   *)
FairSpec == Spec /\ WF_vars(Next)

RunDone == \A t \in Tasks : state[t] \in Finished

----------------------------------------------------------------------------
(* The callables called directly, one call on one store: the inputs are    *)
(* any store contents, whether or not a pipeline run can produce them.     *)

MetricsRecords ==
    {[accuracy |-> a, precision |-> 8500, recall |-> 8800, f1_score |-> 8647] :
        a \in {0, 10000} \cup
              {ACCURACY_THRESHOLD + d : d \in (0 - MaxDelta)..MaxDelta}}
    \cup {[precision |-> 8500, recall |-> 8800, f1_score |-> 8647]}

DeployInfos ==
    {[version |-> MODEL_VERSION, metrics |-> m, timestamp |-> 0] :
        m \in MetricsRecords}
    \cup {[version |-> MODEL_VERSION, timestamp |-> 0], <<>>}

UnitInit ==
    /\ state = [t \in Tasks |-> "none"]
    /\ try_number = [t \in Tasks |-> 0]
    /\ faults = [t \in Tasks |-> 0]
    /\ xcom \in [metrics : {None} \cup {Some(m) : m \in MetricsRecords},
                  deploy_info : {None} \cup {Some(d) : d \in DeployInfos}]
    /\ TELEGRAM_TOKEN \in Credentials
    /\ TELEGRAM_CHAT_ID \in Credentials
    /\ branch = "none"
    /\ sent = <<>>
    /\ log = "none"
    /\ raw = None
    /\ last = [task |-> "none", raised |-> FALSE]
    /\ pushed = <<>>

call(t, res) ==
    /\ last.task = "none"
    /\ xcom' = res.xcom
    /\ last' = [task |-> t, raised |-> res.raised]
    /\ pushed' = IF res.raised THEN pushed
                 ELSE pushed \o xcom_push(t, clear_xcom_data(xcom, t), res.xcom)
    /\ UNCHANGED <<state, try_number, faults, TELEGRAM_TOKEN,
                   TELEGRAM_CHAT_ID>>

CallTrain ==
    /\ call("train_model", train_model(xcom))
    /\ UNCHANGED <<branch, sent, log, raw>>

CallEvaluate ==
    \E s \in Samples :
        /\ call("evaluate_model", evaluate_model(xcom, s))
        /\ raw' = Some(s)
        /\ UNCHANGED <<branch, sent, log>>

CallCheck ==
    LET res == check_metrics(xcom)
    IN  /\ call("check_metrics", res)
        /\ branch' = res.ret
        /\ UNCHANGED <<sent, log, raw>>

CallDeploy ==
    /\ call("deploy_model", deploy_model(xcom, now))
    /\ UNCHANGED <<branch, sent, log, raw>>

CallSkip ==
    /\ call("skip_deploy", skip_deploy(xcom))
    /\ UNCHANGED <<branch, sent, log, raw>>

CallNotify ==
    \E response \in Responses :
        LET res == send_telegram_notification(xcom, TELEGRAM_TOKEN,
                                              TELEGRAM_CHAT_ID, response)
        IN  /\ call("notify_success", res)
            /\ sent' = sent \o res.posts
            /\ log' = res.log
            /\ UNCHANGED <<branch, raw>>

UnitNext ==
    \/ CallTrain
    \/ CallEvaluate
    \/ CallCheck
    \/ CallDeploy
    \/ CallSkip
    \/ CallNotify

UnitSpec == UnitInit /\ [][UnitNext]_vars

----------------------------------------------------------------------------
(* Properties *)

executed(t) == try_number[t] > 0

(* C1: called on a store whose metrics record carries an accuracy,         *)
(* check_metrics returns normally, 'deploy_model' when accuracy >= 0.8     *)
(* (0.8 itself included) and 'skip_deploy' when accuracy < 0.8; nothing    *)
(* else in the store or the configuration changes the answer.              *)
C1_GateThreshold ==
    (/\ last.task = "check_metrics"
     /\ xcom.metrics # None
     /\ "accuracy" \in DOMAIN xcom.metrics[1])
    => /\ ~last.raised
       /\ xcom.metrics[1].accuracy >= 8000 => branch = "deploy_model"
       /\ xcom.metrics[1].accuracy < 8000 => branch = "skip_deploy"

C1_Witness ==
    /\ last.task = "check_metrics"
    /\ xcom.metrics # None
    /\ "accuracy" \in DOMAIN xcom.metrics[1]
    /\ xcom.metrics[1].accuracy = 8000
    /\ branch = "deploy_model"

(* C2: deploy_model and skip_deploy never both execute in a run, the one   *)
(* that executes is the one check_metrics returned, and a finished run in  *)
(* which check_metrics succeeded has executed exactly that one, the other  *)
(* being skipped.                                                          *)
C2_ExactlyOneBranch ==
    /\ ~(executed("deploy_model") /\ executed("skip_deploy"))
    /\ executed("deploy_model") => branch = "deploy_model"
    /\ executed("skip_deploy") => branch = "skip_deploy"
    /\ (RunDone /\ state["check_metrics"] = "success")
       => /\ branch \in {"deploy_model", "skip_deploy"}
          /\ executed(branch)
          /\ \A t \in {"deploy_model", "skip_deploy"} \ {branch} :
                 ~executed(t) /\ state[t] = "skipped"

C2_Witness ==
    /\ RunDone
    /\ branch = "skip_deploy"
    /\ state["skip_deploy"] = "success"
    /\ state["deploy_model"] = "skipped"
    /\ ~executed("deploy_model")

(* C3 as stated: a finished run in which deploy_model or skip_deploy       *)
(* succeeded has executed notify_success.                                  *)
C3_Original ==
    (/\ RunDone
     /\ state["deploy_model"] = "success" \/ state["skip_deploy"] = "success")
    => executed("notify_success")

(* C3 amended: notify_success executes only after deploy_model succeeded   *)
(* and in every finished run where it did; when check_metrics picks        *)
(* skip_deploy, notify_success never executes: it ends skipped, and join   *)
(* still succeeds once skip_deploy has.                                    *)
C3_NotifierFollowsDeployOnly ==
    /\ executed("notify_success") => state["deploy_model"] = "success"
    /\ (RunDone /\ state["deploy_model"] = "success")
       => executed("notify_success")
    /\ branch = "skip_deploy" => ~executed("notify_success")
    /\ (RunDone /\ state["skip_deploy"] = "success")
       => /\ state["notify_success"] = "skipped"
          /\ log = "none"
          /\ state["join"] = "success"

C3_Witness ==
    /\ RunDone
    /\ branch = "skip_deploy"
    /\ state["skip_deploy"] = "success"
    /\ state["notify_success"] = "skipped"
    /\ state["join"] = "success"

(* A stage has failed at some point of the run: a failed attempt leaves   *)
(* the task up for retry, failed, or on a second attempt.                  *)
SomeFailure ==
    \E t \in Tasks :
        \/ state[t] \in {"up_for_retry", "failed", "upstream_failed"}
        \/ try_number[t] > 1

(* C4: under the scheduler's fairness, a run in which no stage fails       *)
(* reaches join = success, on the deploy path and on the skip path.        *)
C4_FailureFreeRunJoins == <>(state["join"] = "success" \/ SomeFailure)

C4_Witness ==
    /\ state["join"] = "success"
    /\ ~SomeFailure
    /\ branch = "skip_deploy"
    /\ state["skip_deploy"] = "success"

f1_of_stored ==
    round(2 * (xcom.metrics[1].precision * xcom.metrics[1].recall),
          xcom.metrics[1].precision + xcom.metrics[1].recall)

abs(n) == IF n < 0 THEN 0 - n ELSE n

(* C5 as stated: the f1_score evaluate_model stores is 2pr/(p+r) of the    *)
(* rounded precision and recall stored with it, rounded to 4 digits.       *)
C5_Original ==
    last.task = "evaluate_model"
    => xcom.metrics[1].f1_score = f1_of_stored

(* C5 amended: the stored f1_score is 2pr/(p+r) of the raw precision and   *)
(* recall samples, rounded to 4 digits; it is within one unit of the 4th   *)
(* digit of the value computed from the stored rounded precision and       *)
(* recall.                                                                 *)
C5_F1FromRawSamples ==
    last.task = "evaluate_model"
    => /\ xcom.metrics[1].precision = round(raw[1].precision, RawSub)
       /\ xcom.metrics[1].recall = round(raw[1].recall, RawSub)
       /\ xcom.metrics[1].f1_score =
              round(2 * raw[1].precision * raw[1].recall,
                    (raw[1].precision + raw[1].recall) * RawSub)
       /\ abs(xcom.metrics[1].f1_score - f1_of_stored) <= 1

C5_Witness ==
    /\ last.task = "evaluate_model"
    /\ xcom.metrics[1].f1_score # f1_of_stored

(* C6: called on a store without deploy_info, send_telegram_notification   *)
(* returns normally on its 'no deployment info' path and posts nothing,    *)
(* whatever the credentials.                                               *)
C6_NoDeployInfoNoPost ==
    (last.task = "notify_success" /\ xcom.deploy_info = None)
    => /\ ~last.raised
       /\ sent = <<>>
       /\ log = "no_deploy_info"

C6_Witness ==
    /\ last.task = "notify_success"
    /\ xcom.deploy_info = None
    /\ TELEGRAM_TOKEN = "secret"
    /\ TELEGRAM_CHAT_ID = "secret"
    /\ log = "no_deploy_info"

(* C7: called with a deploy_info in the store and TELEGRAM_TOKEN or        *)
(* TELEGRAM_CHAT_ID (or both) unset, send_telegram_notification returns    *)
(* normally on its simulated-notification path and posts nothing.          *)
C7_MissingCredentialsNoPost ==
    (/\ last.task = "notify_success"
     /\ xcom.deploy_info # None
     /\ xcom.deploy_info[1] # <<>>
     /\ TELEGRAM_TOKEN = Unset \/ TELEGRAM_CHAT_ID = Unset)
    => /\ ~last.raised
       /\ sent = <<>>
       /\ log = "simulated"

C7_Witness ==
    /\ last.task = "notify_success"
    /\ xcom.deploy_info # None
    /\ xcom.deploy_info[1] # <<>>
    /\ TELEGRAM_TOKEN = "secret"
    /\ TELEGRAM_CHAT_ID = Unset
    /\ log = "simulated"

(* C8: with deploy_info present and both credentials set, the callable of  *)
(* notify_success never raises, whatever requests.post does; an attempt    *)
(* that nothing outside the callable kills posts exactly once, leaves the  *)
(* task success on its first try, and the finished run has join success.   *)
C8_PostOutcomeNeverFails ==
    (/\ executed("notify_success")
     /\ xcom.deploy_info # None
     /\ TELEGRAM_TOKEN = "secret"
     /\ TELEGRAM_CHAT_ID = "secret")
    => /\ last.task = "notify_success" => ~last.raised
       /\ Len(sent) <= try_number["notify_success"]
       /\ faults["notify_success"] = 0
          => /\ state["notify_success"] = "success"
             /\ try_number["notify_success"] = 1
             /\ Len(sent) = 1
             /\ log \in {"sent", "send_error", "exception"}
             /\ RunDone => state["join"] = "success"

C8_Witness ==
    /\ RunDone
    /\ faults["notify_success"] = 0
    /\ log = "exception"
    /\ Len(sent) = 1
    /\ state["notify_success"] = "success"
    /\ state["join"] = "success"

(* C9: the store holds a deploy_info only if deploy_model has executed in  *)
(* the run; in a run where check_metrics returned skip_deploy it holds     *)
(* none at any point.                                                      *)
C9_DeployInfoOnlyFromDeployer ==
    /\ xcom.deploy_info # None
       => executed("deploy_model") /\ branch = "deploy_model"
    /\ branch = "skip_deploy" => xcom.deploy_info = None

C9_Witness ==
    /\ RunDone
    /\ branch = "skip_deploy"
    /\ state["skip_deploy"] = "success"
    /\ state["join"] = "success"
    /\ xcom.deploy_info = None

(* C10: once skip_deploy or notify_success has succeeded, join succeeds,   *)
(* whatever failed and was retried earlier in the run.                     *)
C10_JoinAfterOneSuccess ==
    (state["skip_deploy"] = "success" \/ state["notify_success"] = "success")
    ~> state["join"] = "success"

C10_Witness ==
    /\ state["join"] = "success"
    /\ state["notify_success"] = "success"
    /\ state["skip_deploy"] = "skipped"
    /\ \E t \in Tasks : faults[t] > 0

(* C11: a task has executed (join: has succeeded) only when every direct  *)
(* upstream task had reached a final state, success for every task but     *)
(* join: evaluate_model after train_model, check_metrics after             *)
(* evaluate_model, both branches after check_metrics, notify_success       *)
(* after deploy_model, join after skip_deploy and notify_success.          *)
C11_StagesInOrder ==
    /\ \A t \in Tasks \ {"join"} :
           executed(t) => \A u \in upstream(t) : state[u] = "success"
    /\ state["join"] = "success"
       => \A u \in upstream("join") : state[u] \in Finished

C11_Witness ==
    /\ state["join"] = "success"
    /\ executed("notify_success")
    /\ state["deploy_model"] = "success"
    /\ state["skip_deploy"] = "skipped"

pushes(key) ==
    Cardinality({i \in 1..Len(pushed) : pushed[i][2] = key})

(* C12 as stated: in a run, retries included, each of the keys metrics     *)
(* and deploy_info is pushed at most once.                                 *)
C12_Original ==
    pushes("metrics") <= 1 /\ pushes("deploy_info") <= 1

(* C12 amended: only evaluate_model pushes metrics and only deploy_model   *)
(* pushes deploy_info, each at most once per attempt (so at most once      *)
(* unless the task is retried), and the metrics record does not change     *)
(* once check_metrics has executed.                                        *)
C12_OneWriterOnePushPerAttempt ==
    /\ [](/\ \A i \in 1..Len(pushed) :
               pushed[i] \in {<<"evaluate_model", "metrics">>,
                              <<"deploy_model", "deploy_info">>}
          /\ pushes("metrics") <= try_number["evaluate_model"]
          /\ pushes("deploy_info") <= try_number["deploy_model"]
          /\ try_number["evaluate_model"] <= 2
          /\ try_number["deploy_model"] <= 2)
    /\ [][executed("check_metrics") => xcom'.metrics = xcom.metrics]_vars

C12_Witness ==
    /\ pushes("metrics") = 2
    /\ pushes("deploy_info") = 2
    /\ state["deploy_model"] = "success"

(* C13: no task is attempted more than twice, a task is up for retry only  *)
(* after its first attempt and failed only after its second, two lost      *)
(* attempts leave it failed, and send_telegram_notification posts at most  *)
(* once per attempt.                                                       *)
C13_AtMostOneRetry ==
    /\ \A t \in Tasks :
           /\ try_number[t] <= 2
           /\ state[t] = "up_for_retry" => try_number[t] = 1
           /\ state[t] = "failed" => try_number[t] = 2
           /\ faults[t] = 2 => state[t] = "failed"
           /\ try_number[t] = 2 => state[t] \in {"success", "failed"}
    /\ Len(sent) <= try_number["notify_success"]

C13_Witness ==
    /\ state["notify_success"] = "failed"
    /\ try_number["notify_success"] = 2
    /\ Len(sent) = 2

stored_accuracy == xcom.metrics[1].accuracy

(* C14: deploy_model executes only when the stored accuracy is >= 0.8 and  *)
(* skip_deploy only when it is < 0.8; a deploy_info embeds the stored      *)
(* metrics record, whose accuracy is >= 0.8; and a run without failure     *)
(* whose accuracy is >= 0.8 gets its deploy_info written and then          *)
(* notify_success executed.                                                *)
C14_BranchFollowsAccuracy ==
    /\ [](/\ executed("deploy_model")
              => xcom.metrics # None /\ stored_accuracy >= 8000
          /\ executed("skip_deploy")
              => xcom.metrics # None /\ stored_accuracy < 8000
          /\ xcom.deploy_info # None
              => /\ xcom.deploy_info[1].metrics = xcom.metrics[1]
                 /\ xcom.deploy_info[1].metrics.accuracy >= 8000
          /\ executed("notify_success") => xcom.deploy_info # None)
    /\ <>(\/ SomeFailure
          \/ state["evaluate_model"] = "success" /\ stored_accuracy < 8000
          \/ xcom.deploy_info # None /\ executed("notify_success"))

C14_Witness ==
    /\ ~SomeFailure
    /\ xcom.deploy_info # None
    /\ xcom.deploy_info[1].metrics.accuracy = 8000
    /\ state["notify_success"] = "success"
    /\ state["join"] = "success"

descendants(t) ==
    LET d1 == downstream(t)
        d2 == d1 \cup UNION {downstream(u) : u \in d1}
        d3 == d2 \cup UNION {downstream(u) : u \in d2}
        d4 == d3 \cup UNION {downstream(u) : u \in d3}
    IN  d4 \cup UNION {downstream(u) : u \in d4}

(* C15: once a task is failed, no task downstream of it has executed or    *)
(* ever succeeds, join included; and after a failure of deploy_model,      *)
(* skip_deploy or notify_success the finished run has join                 *)
(* upstream_failed.                                                        *)
C15_FailureStopsDownstream ==
    \A t \in Tasks :
        state[t] = "failed"
        => /\ \A d \in descendants(t) :
                  ~executed(d) /\ state[d] # "success"
           /\ state["join"] # "success"
           /\ RunDone => state["join"] = "upstream_failed"

C15_Witness ==
    /\ RunDone
    /\ state["notify_success"] = "failed"
    /\ state["deploy_model"] = "success"
    /\ state["join"] = "upstream_failed"

(* C16: deploy_model and skip_deploy never both execute, also when tasks   *)
(* are retried, and from the moment check_metrics has returned, the task   *)
(* it did not return is skipped, never attempted and never failed.         *)
C16_UnselectedBranchSkipped ==
    /\ ~(executed("deploy_model") /\ executed("skip_deploy"))
    /\ \A t \in {"deploy_model", "skip_deploy"} :
           (branch # "none" /\ branch # t)
           => /\ state[t] = "skipped"
              /\ try_number[t] = 0
              /\ faults[t] = 0
    /\ (RunDone /\ branch # "none" /\ state[branch] = "success")
       => state["join"] \in {"success", "upstream_failed"}
          /\ (state["join"] = "upstream_failed"
               => state["notify_success"] \in {"failed", "upstream_failed"})

C16_Witness ==
    /\ RunDone
    /\ try_number["check_metrics"] = 2
    /\ try_number["deploy_model"] = 2
    /\ state["deploy_model"] = "success"
    /\ state["skip_deploy"] = "skipped"
    /\ state["join"] = "success"

(* C17 as stated: a POST is issued only after deploy_model succeeded and   *)
(* wrote deploy_info, never when skip_deploy was returned, and at most     *)
(* once in a run.                                                          *)
C17_Original ==
    /\ sent # <<>>
       => state["deploy_model"] = "success" /\ xcom.deploy_info # None
    /\ branch = "skip_deploy" => sent = <<>>
    /\ Len(sent) <= 1

(* C17 amended: a POST is issued only after deploy_model succeeded and     *)
(* wrote deploy_info, never when skip_deploy was returned, and at most     *)
(* once per attempt of notify_success: once when the task is not retried,  *)
(* at most twice in a run.                                                 *)
C17_PostOnlyAfterDeploy ==
    /\ sent # <<>>
       => /\ state["deploy_model"] = "success"
          /\ xcom.deploy_info # None
          /\ TELEGRAM_TOKEN = "secret" /\ TELEGRAM_CHAT_ID = "secret"
    /\ branch = "skip_deploy" => sent = <<>>
    /\ Len(sent) <= try_number["notify_success"]
    /\ Len(sent) <= 2

C17_Witness ==
    /\ Len(sent) = 2
    /\ state["notify_success"] = "success"
    /\ state["deploy_model"] = "success"

(* C18: called on a store whose metrics record has no accuracy,            *)
(* check_metrics returns normally and returns 'skip_deploy'.               *)
C18_MissingAccuracySkips ==
    (/\ last.task = "check_metrics"
     /\ xcom.metrics # None
     /\ "accuracy" \notin DOMAIN xcom.metrics[1])
    => ~last.raised /\ branch = "skip_deploy"

C18_Witness ==
    /\ last.task = "check_metrics"
    /\ xcom.metrics # None
    /\ "accuracy" \notin DOMAIN xcom.metrics[1]
    /\ branch = "skip_deploy"

====
